---- MODULE Spec2Model ----
(***************************************************************************)
(* License validation service of src/app.py: the `licenses` table, the     *)
(* /validate_license handler and the admin handlers that write the table.  *)
(*                                                                         *)
(* Every handler opens its own connection (psycopg2, READ COMMITTED): a    *)
(* SELECT sees the rows committed so far, and an UPDATE/INSERT followed by *)
(* commit() becomes visible to the others in one step.  A handler that     *)
(* issues one statement is therefore one action; /validate_license and     *)
(* /generate_keys read the table first and write it later, and other       *)
(* requests can commit in between, so each of their statements is a step.  *)
(*                                                                         *)
(* Time is counted in whole days: a timestamp is a number of days, and     *)
(* timedelta(days=n) is n.  Keys are sequences of characters, because the  *)
(* handlers strip, upper-case and join them; device ids are only compared  *)
(* and stay strings.                                                       *)
(***************************************************************************)
EXTENDS Integers, Sequences, FiniteSets, TLC

\* ---------------------------------------------------------------- bounds
MaxTime == 2        \* the clock runs over 0..MaxTime
MaxDays == 1        \* validity windows submitted by the admin: 0..MaxDays
MaxBulk == 2        \* lines of a /mass_add_keys form: 0..MaxBulk
MaxQuantity == 2    \* quantity of a /generate_keys form: 0..MaxQuantity

\* The clients: each runs on one device, sends that device's id (or none) and
\* has at most one /validate_license request in flight.
Devices == {"dev1", "dev2"}
Times == 0..MaxTime
Days == 0..MaxDays

\* ------------------------------------------------------------- strings
\* The empty key and the empty device id; a field missing from the request
\* (None) is falsy in the same way, and so is a NULL used_on_device.
Empty == <<>>
NoDevice == ""

\* Characters that occur in the keys the model feeds to the handlers.
Whitespace == {" "}

\* str.upper() on one character.
UpperChar(c) ==
    CASE c = "a" -> "A"
      [] c = "b" -> "B"
      [] OTHER -> c

\* str.upper()
upper(s) == [i \in 1..Len(s) |-> UpperChar(s[i])]

\* str.strip(): drop leading and trailing whitespace.
RECURSIVE lstrip(_)
lstrip(s) ==
    IF s # <<>> /\ Head(s) \in Whitespace THEN lstrip(Tail(s)) ELSE s

RECURSIVE rstrip(_)
rstrip(s) ==
    IF s # <<>> /\ s[Len(s)] \in Whitespace
    THEN rstrip(SubSeq(s, 1, Len(s) - 1))
    ELSE s

strip(s) == rstrip(lstrip(s))

\* string.ascii_uppercase + string.digits, cut down to two letters.
alphabet == {"A", "B"}

\* generate_key's candidates: `parts` groups of `part_length` characters of
\* the alphabet joined by "-".  The model draws keys of one group of one
\* character, so that generated keys, typed keys and bulk keys collide.
GenFormat == [parts |-> 1, part_length |-> 1]

RECURSIVE join(_)
join(key_parts) ==
    IF Len(key_parts) = 0 THEN <<>>
    ELSE IF Len(key_parts) = 1 THEN key_parts[1]
    ELSE key_parts[1] \o <<"-">> \o join(Tail(key_parts))

Candidates ==
    { join(ps) : ps \in [1..GenFormat.parts -> [1..GenFormat.part_length -> alphabet]] }

\* Keys the clients and the admin type.
Keys == { <<"A">>, <<"B">> }

\* Lines of the keys_raw textarea of /mass_add_keys (after splitlines()).
RawLines == { <<"a">>, <<" ", "B", " ">>, <<" ">> }

\* ------------------------------------------------------------ the table
\* A row of `licenses` without its key.  The INSERT statements name only key
\* and valid_for_days; the other columns take the table's defaults.
NewRow(validity_days, today) ==
    [ valid_for_days |-> validity_days,
      revoked        |-> FALSE,
      used_on_device |-> NoDevice,
      creation_date  |-> today ]

VARIABLES
    licenses,        \* the table: a function from the stored keys to their rows
    now,             \* the clock, in days
    pc,              \* pc[d]: "idle", or "update" between d's SELECT and UPDATE
    req_key,         \* req_key[d]: the key of d's request in flight
    response,        \* the answer sent by the step just taken, if it sent one
    first_bound_at,  \* history: first_bound_at[k] is the day of k's first UPDATE
    gen,             \* the /generate_keys request in flight
    watch,           \* the admin handlers whose requests the run records
    served           \* history: the admin request served by the step just taken

vars == <<licenses, now, pc, req_key, response, first_bound_at, gen, watch, served>>

\* Answers of the admin handlers.  Every handler ends in redirect('/admin');
\* /add_key, /mass_add_keys and /generate_keys first catch psycopg2.Error,
\* roll back and print it.
Redirect           == "Redirect"
RedirectAfterError == "RedirectAfterError"

\* An admin request as served: the handler, the keys it was given (as a set)
\* and how many, the validity window it was given (-1: none), its answer, and
\* the table as it was before the handler's statement.
Served(op, keys, n, validity_days, answer, before) ==
    [op |-> op, keys |-> keys, n |-> n, validity_days |-> validity_days,
     answer |-> answer, before |-> before]

NoServed == Served("none", {}, 0, -1, "None", <<>>)

\* The record of an admin request, kept only in a run that watches its handler.
Record(entry) == IF entry.op \in watch THEN entry ELSE NoServed

\* Outcomes of /validate_license, by status code and message.
BadRequest     == "BadRequest"      \* 400 Missing key or device ID
NotFound       == "NotFound"        \* 404 License key does not exist.
Revoked        == "Revoked"         \* 403 This license key has been revoked.
DeviceMismatch == "DeviceMismatch"  \* 403 ... already in use on another device.
Expired        == "Expired"         \* 403 This license key has expired.
Valid          == "Valid"           \* 200 License is valid.

\* jsonify(..) of /validate_license, with the request it answers.
Response(key, device_id, outcome) ==
    [key |-> key, device_id |-> device_id, outcome |-> outcome]

\* The step answered no /validate_license request.
NoResponse == Response(Empty, NoDevice, "None")

Denials == {BadRequest, NotFound, Revoked, DeviceMismatch, Expired}

\* -------------------------------------------------- /validate_license
\* line 54: creation_date + timedelta(days=valid_for_days)
expiration_date(license_record) ==
    license_record.creation_date + license_record.valid_for_days

\* Mutant of is_expired: the last day of the window already counts as expired.
is_expired_at_boundary(license_record, today) ==
    today >= expiration_date(license_record)

\* line 55: datetime.now(..) > expiration_date
is_expired(license_record, today) ==
    today > expiration_date(license_record)

\* Mutant of is_other_device: the comparison of line 51 inverted.
is_other_device_inverted(license_record, device_id) ==
    /\ license_record.used_on_device # NoDevice
    /\ license_record.used_on_device = device_id

\* line 51: bound, and to another device
is_other_device(license_record, device_id) ==
    /\ license_record.used_on_device # NoDevice
    /\ license_record.used_on_device # device_id

\* Mutant of check_record: the device check moved before the revocation check.
check_record_device_first(license_record, device_id, today) ==
    IF license_record.used_on_device # NoDevice
       /\ license_record.used_on_device # device_id THEN DeviceMismatch
    ELSE IF license_record.revoked THEN Revoked
    ELSE IF today > expiration_date(license_record) THEN Expired
    ELSE Valid

\* Mutant of check_record: the expiry check moved before the device check.
check_record_expiry_first(license_record, device_id, today) ==
    IF license_record.revoked THEN Revoked
    ELSE IF today > expiration_date(license_record) THEN Expired
    ELSE IF license_record.used_on_device # NoDevice
            /\ license_record.used_on_device # device_id THEN DeviceMismatch
    ELSE Valid

\* Lines 45-56: the checks on the fetched row, in the order of the code.
check_record(license_record, device_id, today) ==
    IF license_record.revoked THEN Revoked
    ELSE IF is_other_device(license_record, device_id) THEN DeviceMismatch
    ELSE IF is_expired(license_record, today) THEN Expired
    ELSE Valid

\* Mutant of decide: the row is looked up before the request is checked.
decide_lookup_first(table, key, device_id, today) ==
    IF key \notin DOMAIN table THEN NotFound
    ELSE IF table[key].revoked THEN Revoked
    ELSE IF device_id = NoDevice THEN BadRequest
    ELSE check_record(table[key], device_id, today)

\* Lines 36-56: the outcome decided from the request and the table as read.
decide(table, key, device_id, today) ==
    IF key = Empty \/ device_id = NoDevice THEN BadRequest
    ELSE IF key \notin DOMAIN table THEN NotFound
    ELSE check_record(table[key], device_id, today)

\* Line 58: the handler issues the UPDATE only if the row it read was unbound.
needs_update(table, key, device_id, today) ==
    /\ decide(table, key, device_id, today) = Valid
    /\ table[key].used_on_device = NoDevice

\* Mutant of update_used_on_device: the UPDATE writes back the whole row as the
\* handler read it, not revoked.
update_used_on_device_whole_row(table, key, device_id) ==
    IF key \in DOMAIN table
    THEN [table EXCEPT ![key].used_on_device = device_id, ![key].revoked = FALSE]
    ELSE table

\* Mutant of update_used_on_device: the UPDATE without its WHERE clause.
update_used_on_device_everywhere(table, key, device_id) ==
    [k \in DOMAIN table |-> [table[k] EXCEPT !.used_on_device = device_id]]

\* Lines 59-63: UPDATE licenses SET used_on_device = %s WHERE key = %s; commit.
\* The WHERE clause names the key only; a key that is not stored matches no row.
update_used_on_device(table, key, device_id) ==
    IF key \in DOMAIN table
    THEN [table EXCEPT ![key].used_on_device = device_id]
    ELSE table

\* Lines 32-56 (and 65 when no UPDATE is due): parse, SELECT, check.
validate_license_select(d, key, device_id) ==
    /\ pc[d] = "idle"
    /\ IF needs_update(licenses, key, device_id, now)
       THEN /\ pc' = [pc EXCEPT ![d] = "update"]
            /\ req_key' = [req_key EXCEPT ![d] = key]
            /\ response' = NoResponse
       ELSE /\ response' = Response(key, device_id, decide(licenses, key, device_id, now))
            /\ UNCHANGED <<pc, req_key>>
    /\ served' = NoServed
    /\ UNCHANGED <<licenses, now, first_bound_at, gen, watch>>

\* Lines 58-65: UPDATE, commit, answer valid.
validate_license_update(d) ==
    /\ pc[d] = "update"
    /\ licenses' = update_used_on_device(licenses, req_key[d], d)
    /\ first_bound_at' =
         IF req_key[d] \in DOMAIN licenses /\ first_bound_at[req_key[d]] = -1
         THEN [first_bound_at EXCEPT ![req_key[d]] = now]
         ELSE first_bound_at
    /\ pc' = [pc EXCEPT ![d] = "idle"]
    /\ req_key' = [req_key EXCEPT ![d] = Empty]
    /\ response' = Response(req_key[d], d, Valid)
    /\ served' = NoServed
    /\ UNCHANGED <<now, gen, watch>>

\* ------------------------------------------------------- admin handlers
\* Mutant of insert_row: the INSERT replaces the row of a stored key.
insert_row_replacing(table, key, validity_days, today) ==
    [k \in DOMAIN table \cup {key} |->
        IF k = key THEN NewRow(validity_days, today) ELSE table[k]]

\* INSERT INTO licenses (key, valid_for_days) VALUES (key, validity_days):
\* `key` is unique (line 159 names it as a conflict target), so a stored key
\* raises psycopg2.Error and the statement inserts nothing.
insert_row(table, key, validity_days, today) ==
    IF key \in DOMAIN table
    THEN table
    ELSE table @@ (key :> NewRow(validity_days, today))

\* Lines 94-96, 163-165, 217-219: an INSERT without ON CONFLICT raises
\* psycopg2.Error (unique violation) when one of its keys is stored.
insert_raises(table, keys) == keys \cap DOMAIN table # {}

\* Lines 81-100: /add_key.  On psycopg2.Error the handler rolls back.
add_key(new_key, validity_days) ==
    /\ licenses' = insert_row(licenses, new_key, validity_days, now)
    /\ response' = NoResponse
    /\ served' = Record(Served("add_key", {new_key}, 1, validity_days,
                               IF insert_raises(licenses, {new_key})
                               THEN RedirectAfterError ELSE Redirect,
                               licenses))
    /\ UNCHANGED <<now, pc, req_key, first_bound_at, gen, watch>>

\* Mutant of set_revoked: the UPDATE without its WHERE clause.
set_revoked_everywhere(table, key, flag) ==
    [k \in DOMAIN table |-> [table[k] EXCEPT !.revoked = flag]]

\* Mutant of set_revoked: the UPDATE also clears the bound device.
set_revoked_unbinding(table, key, flag) ==
    IF key \in DOMAIN table
    THEN [table EXCEPT ![key].revoked = flag, ![key].used_on_device = NoDevice]
    ELSE table

\* Line 108: UPDATE licenses SET revoked = <flag> WHERE key = %s
set_revoked(table, key, flag) ==
    IF key \in DOMAIN table
    THEN [table EXCEPT ![key].revoked = flag]
    ELSE table

\* Lines 102-112: /revoke_key
revoke_key(key_to_revoke) ==
    /\ licenses' = set_revoked(licenses, key_to_revoke, TRUE)
    /\ response' = NoResponse
    /\ served' = Record(Served("revoke_key", {key_to_revoke}, 1, -1, Redirect, licenses))
    /\ UNCHANGED <<now, pc, req_key, first_bound_at, gen, watch>>

\* Lines 114-124: /reinstate_key
reinstate_key(key_to_reinstate) ==
    /\ licenses' = set_revoked(licenses, key_to_reinstate, FALSE)
    /\ response' = NoResponse
    /\ served' = Record(Served("reinstate_key", {key_to_reinstate}, 1, -1, Redirect, licenses))
    /\ UNCHANGED <<now, pc, req_key, first_bound_at, gen, watch>>

\* Mutant of set_valid_for_days: the UPDATE skips a row that is bound.
set_valid_for_days_unbound_only(table, key, new_validity_days) ==
    IF key \in DOMAIN table /\ table[key].used_on_device = NoDevice
    THEN [table EXCEPT ![key].valid_for_days = new_validity_days]
    ELSE table

\* Lines 133-136: UPDATE licenses SET valid_for_days = %s WHERE key = %s
set_valid_for_days(table, key, new_validity_days) ==
    IF key \in DOMAIN table
    THEN [table EXCEPT ![key].valid_for_days = new_validity_days]
    ELSE table

\* Lines 126-140: /modify_key
modify_key(key_to_modify, new_validity_days) ==
    /\ licenses' = set_valid_for_days(licenses, key_to_modify, new_validity_days)
    /\ response' = NoResponse
    /\ served' = Record(Served("modify_key", {key_to_modify}, 1, new_validity_days,
                               Redirect, licenses))
    /\ UNCHANGED <<now, pc, req_key, first_bound_at, gen, watch>>

\* Line 149: [key.strip().upper() for key in lines if key.strip()]
RECURSIVE keys_to_add_of(_)
keys_to_add_of(lines) ==
    IF lines = <<>> THEN <<>>
    ELSE IF strip(Head(lines)) # <<>>
         THEN <<upper(strip(Head(lines)))>> \o keys_to_add_of(Tail(lines))
         ELSE keys_to_add_of(Tail(lines))

\* Mutant of insert_on_conflict_do_nothing: the INSERT has no ON CONFLICT
\* clause, so one stored key fails the statement.
insert_without_on_conflict(table, keys, validity_days, today) ==
    LET new_keys == {keys[i] : i \in 1..Len(keys)} IN
    IF new_keys \cap DOMAIN table # {}
    THEN table
    ELSE [k \in DOMAIN table \cup new_keys |->
            IF k \in new_keys THEN NewRow(validity_days, today) ELSE table[k]]

\* Lines 157-161: INSERT .. VALUES .. ON CONFLICT (key) DO NOTHING, row by row.
RECURSIVE insert_on_conflict_do_nothing(_, _, _, _)
insert_on_conflict_do_nothing(table, keys, validity_days, today) ==
    IF keys = <<>> THEN table
    ELSE insert_on_conflict_do_nothing(
             insert_row(table, Head(keys), validity_days, today),
             Tail(keys), validity_days, today)

\* Lines 144-169: /mass_add_keys
mass_add_keys(lines, validity_days) ==
    LET keys_to_add == keys_to_add_of(lines) IN
    /\ licenses' = insert_on_conflict_do_nothing(
                       licenses, keys_to_add, validity_days, now)
    /\ response' = NoResponse
    /\ served' = Record(Served("mass_add_keys",
                               {keys_to_add[i] : i \in 1..Len(keys_to_add)},
                               Len(keys_to_add), validity_days, Redirect, licenses))
    /\ UNCHANGED <<now, pc, req_key, first_bound_at, gen, watch>>

\* ----------------------------------------------------- /generate_keys
\* gen.quantity is the form's quantity and gen.left counts the iterations of
\* line 201 still to run.  validity_days is parsed at line 193 and first read
\* at line 208, so the model draws it there.
GenIdle == [pc |-> "idle", quantity |-> 0, left |-> 0, keys_to_add |-> {}]

\* Lines 190-198: parse the form, start the loop over range(quantity).
generate_keys_begin(quantity) ==
    /\ gen.pc = "idle"
    /\ gen' = [pc |-> "loop", quantity |-> quantity, left |-> quantity,
               keys_to_add |-> {}]
    /\ response' = NoResponse
    /\ served' = NoServed
    /\ UNCHANGED <<licenses, now, pc, req_key, first_bound_at, watch>>

\* Lines 171-187 and 202-203: one call of generate_key.  The loop of
\* generate_key ends with the first candidate the SELECT does not find.
generate_key(new_key) ==
    /\ gen.pc = "loop"
    /\ gen.left > 0
    /\ new_key \notin DOMAIN licenses
    /\ gen' = [gen EXCEPT !.left = @ - 1,
                          !.keys_to_add = @ \cup {new_key}]
    /\ response' = NoResponse
    /\ served' = NoServed
    /\ UNCHANGED <<licenses, now, pc, req_key, first_bound_at, watch>>

\* Mutant of insert_values: the rows whose key is not stored are inserted and
\* the others skipped.
insert_values_skipping(table, keys, validity_days, today) ==
    [k \in DOMAIN table \cup keys |->
        IF k \in DOMAIN table THEN table[k] ELSE NewRow(validity_days, today)]

\* Lines 210-215: INSERT .. VALUES (all of keys_to_add), with no ON CONFLICT:
\* one stored key fails the whole statement (rolled back at line 218).
insert_values(table, keys, validity_days, today) ==
    IF insert_raises(table, keys)
    THEN table
    ELSE [k \in DOMAIN table \cup keys |->
            IF k \in keys THEN NewRow(validity_days, today) ELSE table[k]]

\* Lines 205-223: nothing to add, or the batch INSERT and commit.
generate_keys_insert(validity_days) ==
    /\ gen.pc = "loop"
    /\ gen.left = 0
    /\ licenses' = insert_values(licenses, gen.keys_to_add, validity_days, now)
    /\ gen' = GenIdle
    /\ response' = NoResponse
    /\ served' = Record(Served("generate_keys", gen.keys_to_add, gen.quantity,
                               validity_days,
                               IF insert_raises(licenses, gen.keys_to_add)
                               THEN RedirectAfterError ELSE Redirect,
                               licenses))
    /\ UNCHANGED <<now, pc, req_key, first_bound_at, watch>>

\* ------------------------------------------------------------ the clock
Tick ==
    /\ now < MaxTime
    /\ now' = now + 1
    /\ response' = NoResponse
    /\ served' = NoServed
    /\ UNCHANGED <<licenses, pc, req_key, first_bound_at, gen, watch>>

\* ------------------------------------------------------- specification
AllKeys == Keys \cup Candidates

Init ==
    /\ licenses = <<>>
    /\ now = 0
    /\ pc = [d \in Devices |-> "idle"]
    /\ req_key = [d \in Devices |-> Empty]
    /\ response = NoResponse
    /\ first_bound_at = [k \in AllKeys |-> -1]
    /\ gen = GenIdle
    /\ watch = {}
    /\ served = NoServed

\* The license lifecycle: validation requests of the clients interleaved with
\* the admin handlers that create a key and that change a stored one.
Next ==
    \/ \E d \in Devices, key \in Keys \cup {Empty} :
          \E device_id \in {d, NoDevice} : validate_license_select(d, key, device_id)
    \/ \E d \in Devices : validate_license_update(d)
    \/ \E key \in Keys, validity_days \in Days : add_key(key, validity_days)
    \/ \E key \in Keys : revoke_key(key)
    \/ \E key \in Keys : reinstate_key(key)
    \/ \E key \in Keys, validity_days \in Days : modify_key(key, validity_days)
    \/ Tick

Spec == Init /\ [][Next]_vars

\* Key creation: the statements of /generate_keys interleaved with the other
\* handlers that insert rows.  To the table /mass_add_keys and /generate_keys
\* are insertions of new rows (key, valid_for_days and the column defaults) or
\* nothing, which Spec takes through /add_key.
GenNext ==
    \/ \E quantity \in 0..MaxQuantity : generate_keys_begin(quantity)
    \/ \E new_key \in Candidates : generate_key(new_key)
    \/ \E validity_days \in Days : generate_keys_insert(validity_days)
    \/ \E key \in Keys, validity_days \in Days : add_key(key, validity_days)
    \/ Tick

\* A table left by earlier requests: key A created on day 0 for one day, first
\* used by dev1 the same day and revoked since.
UsedTable ==
    <<"A">> :> [ valid_for_days |-> 1, revoked |-> TRUE,
                 used_on_device |-> "dev1", creation_date |-> 0 ]

\* The service on day 0 with one of `tables` stored, recording the requests
\* served by the handlers `ops`.
Start(tables, ops) ==
    /\ licenses \in tables
    /\ now = 0
    /\ pc = [d \in Devices |-> "idle"]
    /\ req_key = [d \in Devices |-> Empty]
    /\ response = NoResponse
    /\ first_bound_at =
         [k \in AllKeys |->
            IF k \in DOMAIN licenses /\ licenses[k].used_on_device # NoDevice
            THEN 0 ELSE -1]
    /\ gen = GenIdle
    /\ watch = ops
    /\ served = NoServed

\* /generate_keys next to concurrent /add_key requests.
GenInit == Start({<<>>, UsedTable}, {"generate_keys"})

GenSpec == GenInit /\ [][GenNext]_vars

\* The textarea of /mass_add_keys: every form of up to MaxBulk lines, and one
\* longer form that repeats a key around a blank line.
LongForm == << <<"a">>, <<" ">>, <<"a">>, <<" ", "B", " ">> >>

Forms == UNION { [1..n -> RawLines] : n \in 0..MaxBulk } \cup {LongForm}

BulkInit == Start({<<>>, UsedTable}, {"mass_add_keys"})

BulkNext ==
    \/ \E lines \in Forms, validity_days \in Days : mass_add_keys(lines, validity_days)
    \/ \E key \in Keys, validity_days \in Days : add_key(key, validity_days)
    \/ Tick

BulkSpec == BulkInit /\ [][BulkNext]_vars

\* The admin handlers on one key, with the requests they serve recorded, and
\* the validations of that key by both clients.
AdminKeys == { <<"A">> }

AdminInit ==
    Start({<<>>}, {"add_key", "revoke_key", "reinstate_key", "modify_key"})

AdminNext ==
    \/ \E d \in Devices, key \in AdminKeys : validate_license_select(d, key, d)
    \/ \E d \in Devices : validate_license_update(d)
    \/ \E key \in AdminKeys, validity_days \in Days : add_key(key, validity_days)
    \/ \E key \in AdminKeys : revoke_key(key)
    \/ \E key \in AdminKeys : reinstate_key(key)
    \/ \E key \in AdminKeys, validity_days \in Days : modify_key(key, validity_days)
    \/ Tick

AdminSpec == AdminInit /\ [][AdminNext]_vars

\* Two stored keys: A as in UsedTable, and B created on day 0 for one day and
\* not used yet.
TwoKeyTable ==
    UsedTable @@ (<<"B">> :> NewRow(1, 0))

\* The handlers that read or change a stored row, on a table of two keys, with
\* the requests of /revoke_key, /reinstate_key and /modify_key recorded.
FrameInit == Start({TwoKeyTable}, {"revoke_key", "reinstate_key", "modify_key"})

FrameNext ==
    \/ \E d \in Devices, key \in Keys \cup {Empty} :
          \E device_id \in {d, NoDevice} : validate_license_select(d, key, device_id)
    \/ \E d \in Devices : validate_license_update(d)
    \/ \E key \in Keys : revoke_key(key)
    \/ \E key \in Keys : reinstate_key(key)
    \/ \E key \in Keys, validity_days \in Days : modify_key(key, validity_days)
    \/ Tick

FrameSpec == FrameInit /\ [][FrameNext]_vars

\* ================================================================ claims
\* A step answered a /validate_license request.
Answered == response'.outcome # "None"

\* A step answered a request out of its SELECT alone (lines 36-56, 65).
AnsweredBySelect == Answered /\ pc' = pc

\* Client d's request read its row and went on to the UPDATE (line 58).
StartsUpdate(d) == pc[d] = "idle" /\ pc'[d] = "update"

\* Client d's request issued its UPDATE and answered (lines 59-65).
FinishesUpdate(d) == pc[d] = "update" /\ pc'[d] = "idle"

\* now <= creation_date + valid_for_days: no reading of the expiry rule, from
\* creation or from first use, counts the row as expired.
WithinWindow(row) == now <= row.creation_date + row.valid_for_days

\* ---------------------------------------------------------------- C1
\* C1: of two concurrent Validate calls with different device ids on the same
\* never-bound key exactly one is granted: no call is granted on a key that,
\* when the grant is answered, is bound to the device of another call.
C1_ExactlyOneGrant ==
    [][ (Answered /\ response'.outcome = Valid /\ response'.key \in DOMAIN licenses)
          => licenses[response'.key].used_on_device \in {NoDevice, response'.device_id}
      ]_vars

\* ---------------------------------------------------------------- C2
\* C2: once a record's bound device is set to d it keeps the value d forever.
C2_BindingImmutable ==
    [][ \A k \in DOMAIN licenses :
          licenses[k].used_on_device # NoDevice
            => /\ k \in DOMAIN licenses'
               /\ licenses'[k].used_on_device = licenses[k].used_on_device
      ]_vars

\* ---------------------------------------------------------------- C3
\* C3: a Validate by d1 of a stored, unbound, non-revoked key inside its
\* window is not answered from the SELECT alone (no denial), it goes on to the
\* UPDATE, which binds the record to d1 and answers valid; a
\* Validate by d2 # d1 of a non-revoked key bound to d1 is answered
\* DeviceMismatch, starts no binding and leaves the table as it was.
C3_FirstUseBindsThenMismatch ==
    [][ /\ \A k \in DOMAIN licenses :
             ( /\ licenses[k].used_on_device = NoDevice
               /\ ~licenses[k].revoked
               /\ WithinWindow(licenses[k]) )
             => ~( /\ AnsweredBySelect
                   /\ response'.key = k
                   /\ response'.device_id # NoDevice )
        /\ \A d \in Devices :
             FinishesUpdate(d)
             => /\ response' = Response(req_key[d], d, Valid)
                /\ req_key[d] \in DOMAIN licenses'
                /\ licenses'[req_key[d]].used_on_device = d
        /\ \A d \in Devices, k \in DOMAIN licenses :
             ( /\ licenses[k].used_on_device \notin {NoDevice, d}
               /\ ~licenses[k].revoked )
             => /\ ~(StartsUpdate(d) /\ req_key'[d] = k)
                /\ ( (AnsweredBySelect /\ response'.key = k /\ response'.device_id = d)
                     => /\ response'.outcome = DeviceMismatch
                        /\ licenses' = licenses
                        /\ licenses[k].used_on_device \notin {NoDevice, d} )
      ]_vars

\* A key bound to one device has just refused the other.
C3_Witness ==
    /\ response.outcome = DeviceMismatch
    /\ response.key \in DOMAIN licenses
    /\ licenses[response.key].used_on_device \in Devices \ {response.device_id}
    /\ first_bound_at[response.key] >= 0

\* ---------------------------------------------------------------- C4
\* C4: a Validate by d of a non-revoked key bound to d inside its window is
\* answered valid every time, issues no UPDATE and leaves the table unchanged.
C4_BoundDeviceRevalidates ==
    [][ \A d \in Devices, k \in DOMAIN licenses :
          ( /\ licenses[k].used_on_device = d
            /\ ~licenses[k].revoked
            /\ WithinWindow(licenses[k]) )
          => /\ ~(StartsUpdate(d) /\ req_key'[d] = k)
             /\ ( (AnsweredBySelect /\ response'.key = k /\ response'.device_id = d)
                  => /\ response'.outcome = Valid
                     /\ licenses' = licenses )
      ]_vars

\* The bound device was granted again on a day after the binding, the last
\* day of the window included.
C4_Witness ==
    /\ response.outcome = Valid
    /\ response.key \in DOMAIN licenses
    /\ licenses[response.key].used_on_device = response.device_id
    /\ first_bound_at[response.key] >= 0
    /\ first_bound_at[response.key] < now
    /\ now = licenses[response.key].creation_date + licenses[response.key].valid_for_days

\* ---------------------------------------------------------------- C5
\* C5: while a stored key is revoked, every Validate that reads it is answered
\* Revoked, for every device and day, and starts no binding.
C5_RevocationAbsolute ==
    [][ \A k \in DOMAIN licenses :
          licenses[k].revoked
          => /\ \A d \in Devices : ~(StartsUpdate(d) /\ req_key'[d] = k)
             /\ ( (AnsweredBySelect /\ response'.key = k /\ response'.device_id # NoDevice)
                  => response'.outcome = Revoked )
      ]_vars

\* A revoked key that is also past its window and bound to another device
\* has answered Revoked.
C5_Witness ==
    /\ response.outcome = Revoked
    /\ response.key \in DOMAIN licenses
    /\ licenses[response.key].revoked
    /\ licenses[response.key].used_on_device \in Devices \ {response.device_id}
    /\ ~WithinWindow(licenses[response.key])

\* ---------------------------------------------------------------- C6
\* C6: an unbound key never reports Expired.
C6_UnboundNeverExpired ==
    (response.outcome = Expired /\ response.key \in DOMAIN licenses)
      => licenses[response.key].used_on_device # NoDevice

\* ---------------------------------------------------------------- C7
\* C7: for a non-revoked key bound to d at day T with a window of N days,
\* Validate by d is granted when now <= T + N and Expired when now > T + N.
C7_WindowFromFirstBinding ==
    ( /\ response.outcome # "None"
      /\ response.key \in DOMAIN licenses
      /\ ~licenses[response.key].revoked
      /\ licenses[response.key].used_on_device = response.device_id
      /\ response.device_id # NoDevice
      /\ first_bound_at[response.key] >= 0 )
    => response.outcome =
         IF now <= first_bound_at[response.key] + licenses[response.key].valid_for_days
         THEN Valid
         ELSE Expired

\* ---------------------------------------------------------------- C8
\* C8 as stated: a non-revoked key that is past its window (counted from
\* creation and from first use alike) and bound to a device other than the
\* caller's answers Expired.
C8_ExpiredBeforeMismatch ==
    ( /\ response.outcome # "None"
      /\ response.device_id # NoDevice
      /\ response.key \in DOMAIN licenses
      /\ ~licenses[response.key].revoked
      /\ licenses[response.key].used_on_device \notin {NoDevice, response.device_id}
      /\ first_bound_at[response.key] >= 0
      /\ now > first_bound_at[response.key] + licenses[response.key].valid_for_days )
    => response.outcome = Expired

\* C8 amended: the checks run in the order not-found, revoked, device
\* mismatch, expired, grant, and the first condition that holds is the one
\* answered; a non-revoked key past its window and bound to another device
\* answers DeviceMismatch.
C8_MismatchBeforeExpired ==
    [][ (AnsweredBySelect /\ response'.key # Empty /\ response'.device_id # NoDevice)
        => LET k == response'.key
               d == response'.device_id
               o == response'.outcome
           IN  /\ k \notin DOMAIN licenses => o = NotFound
               /\ k \in DOMAIN licenses =>
                    /\ licenses[k].revoked => o = Revoked
                    /\ ( /\ ~licenses[k].revoked
                         /\ licenses[k].used_on_device \notin {NoDevice, d} )
                       => o = DeviceMismatch
                    /\ ( /\ ~licenses[k].revoked
                         /\ licenses[k].used_on_device \in {NoDevice, d}
                         /\ ~WithinWindow(licenses[k]) )
                       => o = Expired
      ]_vars

\* A non-revoked key past its window, bound to another device, has answered
\* DeviceMismatch.
C8_Witness ==
    /\ response.outcome = DeviceMismatch
    /\ response.key \in DOMAIN licenses
    /\ ~licenses[response.key].revoked
    /\ licenses[response.key].used_on_device \in Devices \ {response.device_id}
    /\ first_bound_at[response.key] >= 0
    /\ now > first_bound_at[response.key] + licenses[response.key].valid_for_days

\* ---------------------------------------------------------------- C9
\* C9: a step that answers a denial leaves the table unchanged, and a step of
\* a Validate request that changes the table answers valid and changes
\* nothing but the bound device of the key it was asked about.
C9_DenialsDoNotWrite ==
    [][ /\ (Answered /\ response'.outcome \in Denials) => licenses' = licenses
        /\ ( /\ licenses' # licenses
             /\ (Answered \/ pc' # pc) )
           => /\ response'.outcome = Valid
              /\ response'.key \in DOMAIN licenses
              /\ licenses' = [licenses EXCEPT
                                ![response'.key].used_on_device = response'.device_id]
      ]_vars

\* A denial has been answered while the table held a row bound by a first use
\* and a row still unbound.
C9_Witness ==
    /\ response.outcome \in Denials
    /\ \E k \in DOMAIN licenses : licenses[k].used_on_device # NoDevice
    /\ \E k \in DOMAIN licenses : licenses[k].used_on_device = NoDevice

\* --------------------------------------------------------------- C10
\* The columns the handlers write or read are key, valid_for_days, revoked,
\* used_on_device and creation_date: a row carries no date of first use.
HasIssuanceDate(row) == "issuance_date" \in DOMAIN row

\* C10: in every row the bound device is absent iff the issuance date is.
C10_BoundIffIssued ==
    \A k \in DOMAIN licenses :
        (licenses[k].used_on_device = NoDevice) <=> ~HasIssuanceDate(licenses[k])

\* --------------------------------------------------------------- C11
\* The key of a served request that names one key.
TheKey(entry) == CHOOSE k \in entry.keys : TRUE

\* C11: /add_key of a stored key fails on the key's uniqueness (the error is
\* caught and rolled back) and leaves the table as it was; /add_key of a key
\* not stored adds one row for it, not revoked, unbound, with the window
\* given, and changes no other row.
C11_CreateKeyConflict ==
    served.op = "add_key"
    => LET k == TheKey(served) IN
       IF k \in DOMAIN served.before
       THEN /\ served.answer = RedirectAfterError
            /\ licenses = served.before
       ELSE /\ served.answer = Redirect
            /\ DOMAIN licenses = DOMAIN served.before \cup {k}
            /\ \A j \in DOMAIN served.before : licenses[j] = served.before[j]
            /\ licenses[k].revoked = FALSE
            /\ licenses[k].used_on_device = NoDevice
            /\ licenses[k].valid_for_days = served.validity_days
            /\ licenses[k].creation_date = now

\* /add_key has been refused for a key that is bound and revoked, with a
\* window other than the one the stored row has.
C11_Witness ==
    /\ served.op = "add_key"
    /\ served.answer = RedirectAfterError
    /\ LET k == TheKey(served) IN
       /\ k \in DOMAIN licenses
       /\ licenses[k].revoked
       /\ licenses[k].used_on_device # NoDevice
       /\ licenses[k].valid_for_days # served.validity_days
       /\ licenses[k].creation_date < now

\* --------------------------------------------------------------- C12
\* C12: /revoke_key, /reinstate_key and /modify_key of a key that is not stored
\* answer otherwise than they answer a success, and leave the table as it was.
C12_AbsentKeyNotFound ==
    ( /\ served.op \in {"revoke_key", "reinstate_key", "modify_key"}
      /\ TheKey(served) \notin DOMAIN served.before )
    => /\ served.answer # Redirect
       /\ licenses = served.before

\* --------------------------------------------------------------- C13
\* C13: a /generate_keys whose INSERT went through has added as many rows as
\* the quantity asked for: its keys were not stored before, they are as many
\* as the quantity, and the table has grown by the quantity.
C13_GeneratesExactlyCount ==
    ( served.op = "generate_keys" /\ served.answer = Redirect )
    => /\ served.keys \cap DOMAIN served.before = {}
       /\ Cardinality(served.keys) = served.n
       /\ Cardinality(DOMAIN licenses) = Cardinality(DOMAIN served.before) + served.n

\* --------------------------------------------------------------- C14
\* C14: after /mass_add_keys every key of the input (stripped, upper-cased,
\* blank lines dropped) is stored; the keys that were not stored have a fresh
\* row, not revoked, unbound, with the window given; every row stored before is
\* as it was; and the request is answered without an error, also when a key
\* occurs twice in the input.
C14_BulkInsertIfAbsent ==
    served.op = "mass_add_keys"
    => /\ served.answer = Redirect
       /\ DOMAIN licenses = DOMAIN served.before \cup served.keys
       /\ \A j \in DOMAIN served.before : licenses[j] = served.before[j]
       /\ \A k \in served.keys \ DOMAIN served.before :
             /\ licenses[k].revoked = FALSE
             /\ licenses[k].used_on_device = NoDevice
             /\ licenses[k].valid_for_days = served.validity_days
             /\ licenses[k].creation_date = now

\* /mass_add_keys has been served with more lines than distinct keys, one of
\* its keys stored before (bound and revoked) and one of them new.
C14_Witness ==
    /\ served.op = "mass_add_keys"
    /\ served.n > Cardinality(served.keys)
    /\ \E k \in served.keys \cap DOMAIN served.before :
          /\ served.before[k].revoked
          /\ served.before[k].used_on_device # NoDevice
          /\ served.before[k].valid_for_days # served.validity_days
    /\ served.keys \ DOMAIN served.before # {}

\* --------------------------------------------------------------- C15
\* C15: a /validate_license request with an empty key or an empty device id
\* is answered BadRequest whatever the table holds, by a step that leaves the
\* table and every pending request as they were; and no request with an empty
\* key goes on to the UPDATE.
C15_BadRequestBeforeStore ==
    [][ /\ ( /\ Answered
             /\ (response'.key = Empty \/ response'.device_id = NoDevice) )
           => /\ response'.outcome = BadRequest
              /\ licenses' = licenses
              /\ pc' = pc
              /\ req_key' = req_key
        /\ \A d \in Devices : StartsUpdate(d) => req_key'[d] # Empty
      ]_vars

\* A request without a device id has been answered BadRequest for a key that
\* is stored and revoked.
C15_Witness ==
    /\ response.outcome = BadRequest
    /\ response.device_id = NoDevice
    /\ response.key \in DOMAIN licenses
    /\ licenses[response.key].revoked

\* --------------------------------------------------------------- C16
\* C16: /revoke_key and /reinstate_key of a stored key succeed and set its
\* revoked flag, changing nothing else, so that a key already in the state
\* asked for is left as it was; revoking and then reinstating a key that was
\* not revoked gives back the table as it was; and right after a reinstatement
\* the device the key is bound to is answered as the window alone decides and
\* every other device is answered DeviceMismatch.
C16_RevokeReinstateIdempotent ==
    /\ served.op \in {"revoke_key", "reinstate_key"}
       => LET k    == TheKey(served)
              flag == (served.op = "revoke_key")
          IN  k \in DOMAIN served.before
              => /\ served.answer = Redirect
                 /\ licenses = [served.before EXCEPT ![k].revoked = flag]
                 /\ served.before[k].revoked = flag => licenses = served.before
    /\ \A k \in DOMAIN licenses :
          ~licenses[k].revoked
          => set_revoked(set_revoked(licenses, k, TRUE), k, FALSE) = licenses
    /\ served.op = "reinstate_key"
       => LET k == TheKey(served) IN
          ( k \in DOMAIN licenses /\ licenses[k].used_on_device # NoDevice )
          => \A d \in Devices :
                decide(licenses, k, d, now) =
                   IF d # licenses[k].used_on_device THEN DeviceMismatch
                   ELSE IF is_expired(licenses[k], now) THEN Expired
                   ELSE Valid

\* /reinstate_key has been served for a key that was revoked, is bound and is
\* within its window.
C16_Witness ==
    /\ served.op = "reinstate_key"
    /\ LET k == TheKey(served) IN
       /\ k \in DOMAIN served.before
       /\ served.before[k].revoked
       /\ ~licenses[k].revoked
       /\ licenses[k].used_on_device # NoDevice
       /\ WithinWindow(licenses[k])

\* --------------------------------------------------------------- C17
\* C17: /modify_key of a stored key sets its valid_for_days and changes nothing
\* else, also when the key is bound; right after it the device a non-revoked
\* key is bound to is answered Expired when now is past the new window counted
\* from the first use, and valid when now is within the new window counted
\* from the creation.
C17_ModifyValidityRetroactive ==
    served.op = "modify_key"
    => LET k == TheKey(served)
           n == served.validity_days
       IN  k \in DOMAIN served.before
           => /\ served.answer = Redirect
              /\ licenses = [served.before EXCEPT ![k].valid_for_days = n]
              /\ ( licenses[k].used_on_device # NoDevice /\ ~licenses[k].revoked )
                 => LET answer == decide(licenses, k, licenses[k].used_on_device, now)
                    IN  /\ now > first_bound_at[k] + n => answer = Expired
                        /\ now <= licenses[k].creation_date + n => answer = Valid

\* /modify_key has shortened the window of a bound, non-revoked key that was
\* within its window, so that now is past the new one.
C17_Witness ==
    /\ served.op = "modify_key"
    /\ LET k == TheKey(served) IN
       /\ k \in DOMAIN served.before
       /\ licenses[k].used_on_device # NoDevice
       /\ ~licenses[k].revoked
       /\ WithinWindow(served.before[k])
       /\ served.validity_days < served.before[k].valid_for_days
       /\ now > first_bound_at[k] + served.validity_days

\* --------------------------------------------------------------- C18
\* The table as far as a request for key k reads it.
Only(table, k) == [j \in DOMAIN table \cap {k} |-> table[j]]

\* C18: /revoke_key, /reinstate_key and /modify_key leave every row but the one
\* of their key as it was; the UPDATE of a /validate_license request leaves
\* every row but the one of its key as it was; and what a /validate_license
\* request answers, and whether it goes on to the UPDATE, is decided by the
\* row of its key alone, whatever the rows of other keys hold.
C18_KeysIndependent ==
    /\ [] ( served.op \in {"revoke_key", "reinstate_key", "modify_key"}
            => /\ DOMAIN licenses = DOMAIN served.before
               /\ \A j \in DOMAIN licenses \ {TheKey(served)} :
                     licenses[j] = served.before[j] )
    /\ [][ /\ \A d \in Devices :
                 FinishesUpdate(d)
                 => /\ DOMAIN licenses' = DOMAIN licenses
                    /\ \A j \in DOMAIN licenses \ {req_key[d]} :
                          licenses'[j] = licenses[j]
           /\ \A d \in Devices :
                 StartsUpdate(d)
                 => needs_update(Only(licenses, req_key'[d]), req_key'[d], d, now)
           /\ AnsweredBySelect
              => response'.outcome =
                    decide(Only(licenses, response'.key),
                           response'.key, response'.device_id, now)
         ]_vars

\* /revoke_key has revoked one key while another key is stored, bound and not
\* revoked.
C18_Witness ==
    /\ served.op = "revoke_key"
    /\ LET k == TheKey(served) IN
       /\ k \in DOMAIN licenses
       /\ ~served.before[k].revoked
       /\ licenses[k].revoked
       /\ \E j \in DOMAIN licenses \ {k} :
             /\ ~licenses[j].revoked
             /\ licenses[j].used_on_device # NoDevice


\* --------------------------------------------------------------- C19
\* C19: the UPDATE of a /validate_license request leaves the revoked flag, the
\* window and the creation date of its row as they are when it runs, whatever
\* was committed since the request read the row; and no step removes a row.
C19_BindingKeepsAdminChange ==
    [][ /\ \A d \in Devices :
              ( FinishesUpdate(d) /\ req_key[d] \in DOMAIN licenses )
              => LET before == licenses[req_key[d]]
                     after  == licenses'[req_key[d]]
                 IN  /\ after.revoked = before.revoked
                     /\ after.valid_for_days = before.valid_for_days
                     /\ after.creation_date = before.creation_date
        /\ DOMAIN licenses \subseteq DOMAIN licenses'
      ]_vars

\* A request has bound a key and answered valid although the key is revoked:
\* the revocation was committed between the request's SELECT and its UPDATE,
\* and the row is still revoked after the UPDATE.
C19_Witness ==
    /\ response.outcome = Valid
    /\ response.key \in DOMAIN licenses
    /\ licenses[response.key].revoked
    /\ licenses[response.key].used_on_device = response.device_id

\* --------------------------------------------------------------- C20
\* C20: when one of the keys /generate_keys has collected is stored by the time
\* of its INSERT, the INSERT fails and is rolled back: the table is as it was
\* before, so none of the batch's keys is stored by it and no row is changed.
C20_GenerateAllOrNothing ==
    ( /\ served.op = "generate_keys"
      /\ served.keys \cap DOMAIN served.before # {} )
    => /\ served.answer = RedirectAfterError
       /\ licenses = served.before

\* /generate_keys has failed with two keys collected, one of them stored in the
\* meantime (on an earlier day, or with another window) and the other not.
C20_Witness ==
    /\ served.op = "generate_keys"
    /\ served.answer = RedirectAfterError
    /\ Cardinality(served.keys) = 2
    /\ served.keys \ DOMAIN licenses # {}
    /\ \E k \in served.keys \cap DOMAIN licenses :
          \/ licenses[k].creation_date < now
          \/ licenses[k].valid_for_days # served.validity_days

====
